---- MODULE Spec2Model ----
(***************************************************************************)
(* A model of TradingBacktester (src/bakctest_engine.py): the ledger       *)
(* (cash, positions, trades), the simulate loop one row per step, and the  *)
(* analysis calls returns() and performance_summary().                     *)
(*                                                                         *)
(* The program computes on IEEE-754 binary64 numbers.  They are modelled   *)
(* bit for bit: a number is [s, m, e] with value (-1)^s * m * 2^e, m a     *)
(* natural of exactly Precision bits (or zero), and every arithmetic       *)
(* operation rounds to nearest, ties to even.  Mantissas and the exact     *)
(* intermediate results exceed TLC's 32-bit integers, so naturals are      *)
(* sequences of limbs in base Base, least significant limb first.          *)
(* Exponent overflow and underflow (inf, subnormals) are outside the       *)
(* model: no value the bounded inputs produce comes near either.           *)
(***************************************************************************)
EXTENDS Integers, Sequences, FiniteSets, TLC

\* ------------------------------------------------------------------------
\* Naturals of arbitrary size
\* ------------------------------------------------------------------------
LimbBits == 15
Base == 2^LimbBits

RECURSIVE Pow2(_)
Pow2(k) == IF k = 0 THEN 1 ELSE 2 * Pow2(k - 1)

RECURSIVE BigNorm(_)
BigNorm(a) ==
    IF a = <<>> THEN <<>>
    ELSE IF a[Len(a)] = 0 THEN BigNorm(SubSeq(a, 1, Len(a) - 1))
    ELSE a

RECURSIVE BigOfInt(_)
BigOfInt(n) == IF n = 0 THEN <<>> ELSE <<n % Base>> \o BigOfInt(n \div Base)

Limb(a, j) == IF j <= Len(a) THEN a[j] ELSE 0

Max2(x, y) == IF x >= y THEN x ELSE y

RECURSIVE BigAddFrom(_, _, _, _)
BigAddFrom(a, b, j, carry) ==
    IF j > Max2(Len(a), Len(b))
    THEN IF carry = 0 THEN <<>> ELSE <<carry>>
    ELSE LET t == Limb(a, j) + Limb(b, j) + carry
         IN  <<t % Base>> \o BigAddFrom(a, b, j + 1, t \div Base)

BigAdd(a, b) == BigAddFrom(a, b, 1, 0)

\* a - b for a >= b
RECURSIVE BigSubFrom(_, _, _, _)
BigSubFrom(a, b, j, borrow) ==
    IF j > Len(a) THEN <<>>
    ELSE LET t == a[j] - Limb(b, j) - borrow
         IN  IF t < 0 THEN <<t + Base>> \o BigSubFrom(a, b, j + 1, 1)
             ELSE <<t>> \o BigSubFrom(a, b, j + 1, 0)

BigSub(a, b) == BigNorm(BigSubFrom(a, b, 1, 0))

\* -1, 0, 1 as a < b, a = b, a > b (both normalised)
RECURSIVE BigCmpFrom(_, _, _)
BigCmpFrom(a, b, j) ==
    IF j = 0 THEN 0
    ELSE IF a[j] < b[j] THEN -1
    ELSE IF a[j] > b[j] THEN 1
    ELSE BigCmpFrom(a, b, j - 1)

BigCmp(a, b) ==
    IF Len(a) < Len(b) THEN -1
    ELSE IF Len(a) > Len(b) THEN 1
    ELSE BigCmpFrom(a, b, Len(a))

\* a * k for 0 <= k < Base
RECURSIVE BigMulSmallFrom(_, _, _, _)
BigMulSmallFrom(a, k, j, carry) ==
    IF j > Len(a)
    THEN IF carry = 0 THEN <<>> ELSE <<carry>>
    ELSE LET t == a[j] * k + carry
         IN  <<t % Base>> \o BigMulSmallFrom(a, k, j + 1, t \div Base)

BigMulSmall(a, k) == IF k = 0 THEN <<>> ELSE BigMulSmallFrom(a, k, 1, 0)

ZeroLimbs(n) == [j \in 1..n |-> 0]

BigShiftLimbs(a, n) == IF a = <<>> THEN <<>> ELSE ZeroLimbs(n) \o a

RECURSIVE BigMulFrom(_, _, _)
BigMulFrom(a, b, j) ==
    IF j > Len(b) THEN <<>>
    ELSE BigAdd(BigShiftLimbs(BigMulSmall(a, b[j]), j - 1), BigMulFrom(a, b, j + 1))

BigMul(a, b) == BigMulFrom(a, b, 1)

\* floor(a / k) for 0 < k < Base, from the most significant limb down
RECURSIVE BigDivSmallFrom(_, _, _, _)
BigDivSmallFrom(a, k, j, rem) ==
    IF j = 0 THEN <<>>
    ELSE LET t == rem * Base + a[j]
         IN  BigDivSmallFrom(a, k, j - 1, t % k) \o <<t \div k>>

BigDivSmall(a, k) == BigNorm(BigDivSmallFrom(a, k, Len(a), 0))

RECURSIVE BitLenSmall(_)
BitLenSmall(n) == IF n = 0 THEN 0 ELSE 1 + BitLenSmall(n \div 2)

BitLen(a) == IF a = <<>> THEN 0 ELSE (Len(a) - 1) * LimbBits + BitLenSmall(a[Len(a)])

\* a * 2^k
BigShl(a, k) == BigShiftLimbs(BigMulSmall(a, Pow2(k % LimbBits)), k \div LimbBits)

\* floor(a / 2^k)
BigShr(a, k) ==
    LET n == k \div LimbBits
    IN  IF n >= Len(a) THEN <<>>
        ELSE BigDivSmall(SubSeq(a, n + 1, Len(a)), Pow2(k % LimbBits))

BigIsOdd(a) == a # <<>> /\ a[1] % 2 = 1

\* the largest q in lo..hi with d * q <= r (d * lo <= r is given)
RECURSIVE QuotDigit(_, _, _, _)
QuotDigit(r, d, lo, hi) ==
    IF lo = hi THEN lo
    ELSE LET mid == (lo + hi + 1) \div 2
         IN  IF BigCmp(BigMulSmall(d, mid), r) <= 0
             THEN QuotDigit(r, d, mid, hi)
             ELSE QuotDigit(r, d, lo, mid - 1)

Min2(x, y) == IF x <= y THEN x ELSE y

\* long division, one limb of n at a time: [q |-> floor(n / d), r |-> n mod d].
\* rem < d throughout, so the two limbs of the running remainder that sit over
\* the top limb of d bracket the quotient digit.
RECURSIVE BigDivModFrom(_, _, _, _)
BigDivModFrom(n, d, j, rem) ==
    IF j = 0 THEN [q |-> <<>>, r |-> rem]
    ELSE LET r1   == BigNorm(<<n[j]>> \o rem)
             top  == Limb(r1, Len(d) + 1) * Base + Limb(r1, Len(d))
             dig  == QuotDigit(r1, d, top \div (d[Len(d)] + 1),
                               Min2(Base - 1, top \div d[Len(d)]))
             r2   == BigSub(r1, BigMulSmall(d, dig))
             rest == BigDivModFrom(n, d, j - 1, r2)
         IN  [q |-> rest.q \o <<dig>>, r |-> rest.r]

\* n and d are first scaled by the power of two that fills the top limb of d,
\* which narrows the bracket of each digit and leaves the quotient unchanged
BigDivMod(n, d) ==
    LET sh  == LimbBits - BitLenSmall(d[Len(d)])
        res == BigDivModFrom(BigShl(n, sh), BigShl(d, sh), Len(BigShl(n, sh)), <<>>)
    IN  [q |-> BigNorm(res.q), r |-> BigShr(res.r, sh)]

\* ------------------------------------------------------------------------
\* binary64 arithmetic, round to nearest, ties to even
\* ------------------------------------------------------------------------
Precision == 53

Zero == [s |-> 0, m |-> <<>>, e |-> 0]

IsZero(x) == x.m = <<>>

\* the float nearest to (-1)^s * (q + f) * 2^e, where 0 <= f < 1 and f > 0 iff
\* sticky; sticky is only passed with q of more than Precision + 1 bits
RoundBits(s, q, sticky, e) ==
    LET len == BitLen(q)
    IN  IF q = <<>> THEN Zero
        ELSE IF len <= Precision
        THEN [s |-> s, m |-> BigShl(q, Precision - len), e |-> e - (Precision - len)]
        ELSE LET sh   == len - Precision
                 m0   == BigShr(q, sh)
                 rem  == BigSub(q, BigShl(m0, sh))
                 half == BigShl(<<1>>, sh - 1)
                 c    == BigCmp(rem, half)
                 up   == c > 0 \/ (c = 0 /\ (sticky \/ BigIsOdd(m0)))
                 m1   == IF up THEN BigAdd(m0, <<1>>) ELSE m0
             IN  IF BitLen(m1) > Precision
                 THEN [s |-> s, m |-> BigShr(m1, 1), e |-> e + sh + 1]
                 ELSE [s |-> s, m |-> m1, e |-> e + sh]

FNeg(x) == IF IsZero(x) THEN Zero ELSE [x EXCEPT !.s = 1 - x.s]

FMul(x, y) ==
    IF IsZero(x) \/ IsZero(y) THEN Zero
    ELSE RoundBits((x.s + y.s) % 2, BigMul(x.m, y.m), FALSE, x.e + y.e)

\* x / y for y # 0
FDiv(x, y) ==
    IF IsZero(x) THEN Zero
    ELSE LET dm == BigDivMod(BigShl(x.m, Precision + 3), y.m)
         IN  RoundBits((x.s + y.s) % 2, dm.q, dm.r # <<>>, x.e - y.e - (Precision + 3))

FAdd(x, y) ==
    IF IsZero(x) THEN y
    ELSE IF IsZero(y) THEN x
    ELSE LET e == IF x.e <= y.e THEN x.e ELSE y.e
             a == BigShl(x.m, x.e - e)
             b == BigShl(y.m, y.e - e)
             c == BigCmp(a, b)
         IN  IF x.s = y.s THEN RoundBits(x.s, BigAdd(a, b), FALSE, e)
             ELSE IF c = 0 THEN Zero
             ELSE IF c > 0 THEN RoundBits(x.s, BigSub(a, b), FALSE, e)
             ELSE RoundBits(y.s, BigSub(b, a), FALSE, e)

FSub(x, y) == FAdd(x, FNeg(y))

FIsPos(x) == ~IsZero(x) /\ x.s = 0

FIsNeg(x) == ~IsZero(x) /\ x.s = 1

\* x > y
FGt(x, y) == FIsPos(FSub(x, y))

\* the float of an integer, and of the quotient n / d of two integers
FromInt(n) == IF n < 0 THEN RoundBits(1, BigOfInt(-n), FALSE, 0)
              ELSE RoundBits(0, BigOfInt(n), FALSE, 0)

FromRatio(n, d) == FDiv(FromInt(n), FromInt(d))

\* a division by zero under numpy gives inf or nan (with a warning, no exception);
\* every such non-finite result is NonFinite, and nothing modelled computes on it
NonFinite == [s |-> 0, m |-> <<>>, e |-> 1]

NpDiv(x, y) == IF IsZero(y) THEN NonFinite ELSE FDiv(x, y)

\* ------------------------------------------------------------------------
\* Inputs
\* ------------------------------------------------------------------------
MaxLen == 3

\* the close prices a frame draws from, and the frames' price paths: the ladder
\* walked cyclically from any of its rungs, upwards or downwards (three rows take
\* the three prices in every order)
Ladder == <<FromInt(100), FromInt(110), FromInt(121)>>
ClosePath(start, step, n) ==
    [k \in 1..n |-> Ladder[((start - 1 + (k - 1) * step) % Len(Ladder)) + 1]]
ClosePaths(n) == {ClosePath(start, step, n) : start \in 1..Len(Ladder), step \in {1, 2}}

Signals == {-1, 0, 1}
InitialCash == {FromInt(1000)}
RiskFractions == {FromRatio(1, 2), FromRatio(2, 100), FromInt(1)}

\* the index labels of the frame: one timestamp per row (1, 2, ...), or the same
\* label on every row (pandas allows a non-unique index)
UniqueIndex(n) == [k \in 1..n |-> k]
ConstantIndex(n) == [k \in 1..n |-> 1]
Indexes(n) == {UniqueIndex(n), ConstantIndex(n)}

Frames ==
    UNION {
        { [k \in 1..n |-> [name |-> idx[k], Close |-> close[k], signal |-> sig[k]]] :
            idx \in Indexes(n), close \in ClosePaths(n), sig \in [1..n -> Signals] } :
        n \in 1..MaxLen }

\* data.name: NoLabel is a ticker symbol equal to no index label of the frame (a
\* string against timestamps, as main() sets it); FirstLabel is the label of the
\* first row, on a frame whose caller named it so
NoLabel == 0
FirstLabel == 1
Names(frame) ==
    IF \A k \in 1..Len(frame) : frame[k].name = k THEN {NoLabel, FirstLabel} ELSE {FirstLabel}

\* ------------------------------------------------------------------------
\* State
\* ------------------------------------------------------------------------
VARIABLES
    data,           \* self.data: the rows of the frame, in order
    data_name,      \* self.data.name
    risk_fraction,  \* self.risk_fraction
    cash,           \* self.cash
    positions,      \* self.positions: a dict, as <<key, quantity>> pairs in insertion order
    trades,         \* self.trades
    cursor,         \* simulate: the number of rows the loop has processed
    ret,            \* the outcome of the last call of returns()
    summary         \* the outcome of the last call of performance_summary()

vars == <<data, data_name, risk_fraction, cash, positions, trades, cursor, ret, summary>>

ledger == <<cash, positions, trades>>

\* ------------------------------------------------------------------------
\* dict operations
\* ------------------------------------------------------------------------
HasKey(d, key) == \E j \in 1..Len(d) : d[j][1] = key

\* d.get(key, 0)
Get(d, key) ==
    IF HasKey(d, key) THEN d[CHOOSE j \in 1..Len(d) : d[j][1] = key][2] ELSE Zero

\* d[key] = value: an existing key keeps its place, a new one goes last
Put(d, key, value) ==
    IF HasKey(d, key)
    THEN [j \in 1..Len(d) |-> IF d[j][1] = key THEN <<key, value>> ELSE d[j]]
    ELSE Append(d, <<key, value>>)

\* ------------------------------------------------------------------------
\* TradingBacktester
\* ------------------------------------------------------------------------
\* variants of _execute with a slip: cash credited instead of debited, and the
\* trade put at the head of the log
execute_credits(l, ticker, qty, price) ==
    [cash      |-> FAdd(l.cash, FMul(qty, price)),
     positions |-> Put(l.positions, ticker, FAdd(Get(l.positions, ticker), qty)),
     trades    |-> Append(l.trades, [ticker |-> ticker, quantity |-> qty, price |-> price])]

execute_prepends(l, ticker, qty, price) ==
    [cash      |-> FSub(l.cash, FMul(qty, price)),
     positions |-> Put(l.positions, ticker, FAdd(Get(l.positions, ticker), qty)),
     trades    |-> <<[ticker |-> ticker, quantity |-> qty, price |-> price]>> \o l.trades]

\* _execute(ticker, qty, price) on the ledger [cash, positions, trades]
execute(l, ticker, qty, price) ==
    [cash      |-> FSub(l.cash, FMul(qty, price)),
     positions |-> Put(l.positions, ticker, FAdd(Get(l.positions, ticker), qty)),
     trades    |-> Append(l.trades, [ticker |-> ticker, quantity |-> qty, price |-> price])]

\* a variant that divides by the fraction
buy_qty_inverted(available, fraction, price) == FDiv(available, FMul(fraction, price))

\* the quantity of a buy: (available * risk_fraction) / price
buy_qty(available, fraction, price) == FDiv(FMul(available, fraction), price)

\* the quantity a sell signal looks up: positions.get(data.name, 0)
sell_qty(pos, dname) == Get(pos, dname)

\* a variant whose sell branch lacks the `qty > 0` guard
simulate_row_unguarded(l, row, fraction, dname) ==
    IF row.signal = 1
    THEN execute(l, row.name, buy_qty(l.cash, fraction, row.Close), row.Close)
    ELSE IF row.signal = -1
    THEN execute(l, row.name, FNeg(sell_qty(l.positions, dname)), row.Close)
    ELSE l

\* one iteration of the loop of simulate() on `row`
simulate_row(l, row, fraction, dname) ==
    IF row.signal = 1
    THEN execute(l, row.name, buy_qty(l.cash, fraction, row.Close), row.Close)
    ELSE IF row.signal = -1
    THEN LET qty == sell_qty(l.positions, dname)
         IN  IF FIsPos(qty) THEN execute(l, row.name, FNeg(qty), row.Close) ELSE l
    ELSE l

\* sum(...) of Python: from 0, left to right
RECURSIVE SumUpTo(_, _)
SumUpTo(xs, n) == IF n = 0 THEN Zero ELSE FAdd(SumUpTo(xs, n - 1), xs[n])

Sum(xs) == SumUpTo(xs, Len(xs))

portfolio_value(c, pos, price) ==
    FAdd(c, Sum([j \in 1..Len(pos) |-> FMul(pos[j][2], price)]))

\* np.diff(xs) / xs[:-1]
DiffOver(xs) ==
    [k \in 1..(Len(xs) - 1) |-> NpDiv(FSub(xs[k + 1], xs[k]), xs[k])]

returns(d, c, pos) ==
    [status |-> "ok", value |-> DiffOver([k \in 1..Len(d) |-> portfolio_value(c, pos, d[k].Close)])]

\* lines 70-77: the metrics of the trade log, for a log of two trades or more
trade_metrics(tr) ==
    LET trade_prices  == [k \in 1..Len(tr) |-> tr[k].price]
        trade_qty     == [k \in 1..Len(tr) |-> tr[k].quantity]
        trade_returns == DiffOver(trade_prices)
        trade_pnl     == [k \in 1..Len(trade_returns) |-> FMul(trade_returns[k], trade_qty[k])]
        wins          == Cardinality({k \in 1..Len(trade_pnl) : FIsPos(trade_pnl[k])})
    IN  [PnL            |-> Sum(trade_pnl),
         AvgTradeReturn |-> FDiv(Sum(trade_returns), FromInt(Len(trade_returns))),
         WinRate        |-> FromRatio(wins, Len(trade_pnl))]

\* performance_summary().  With fewer than two trades trade_returns and trade_pnl
\* are the Python list [0], and `trade_pnl > 0` on line 77 raises TypeError (a list
\* is not ordered against an int).  Annualized Return, Volatility and Sharpe Ratio
\* (a power and a square root of the values below) are not part of the model.
performance_summary(d, c, pos, tr) ==
    LET initial_val  == portfolio_value(c, pos, d[1].Close)
        final_val    == portfolio_value(c, pos, d[Len(d)].Close)
        total_return == NpDiv(FSub(final_val, initial_val), initial_val)
    IN  IF Len(tr) > 1
        THEN [status |-> "ok",
              value  |-> [TotalReturn |-> total_return] @@ trade_metrics(tr)]
        ELSE [status |-> "TypeError", value |-> <<>>]

\* ------------------------------------------------------------------------
\* The state machine
\* ------------------------------------------------------------------------
NotCalled == [status |-> "none", value |-> <<>>]

\* __init__(market_data, initial_cash, risk_fraction), with data.name set
Init ==
    /\ data \in Frames
    /\ data_name \in Names(data)
    /\ risk_fraction \in RiskFractions
    /\ cash \in InitialCash
    /\ positions = <<>>
    /\ trades = <<>>
    /\ cursor = 0
    /\ ret = NotCalled
    /\ summary = NotCalled

Completed == cursor = Len(data)

\* simulate(): the loop body on the next row of the frame
SimulateRow ==
    /\ cursor < Len(data)
    /\ LET l == simulate_row([cash |-> cash, positions |-> positions, trades |-> trades],
                             data[cursor + 1], risk_fraction, data_name)
       IN  /\ cash' = l.cash
           /\ positions' = l.positions
           /\ trades' = l.trades
    /\ cursor' = cursor + 1
    /\ UNCHANGED <<data, data_name, risk_fraction, ret, summary>>

\* returns(), called on the completed simulation
Returns ==
    /\ Completed
    /\ ret' = returns(data, cash, positions)
    /\ UNCHANGED <<data, data_name, risk_fraction, cash, positions, trades, cursor, summary>>

\* a variant that consumes the trade log it analyses
PerformanceSummaryDrains ==
    /\ Completed
    /\ summary' = performance_summary(data, cash, positions, trades)
    /\ trades' = <<>>
    /\ UNCHANGED <<data, data_name, risk_fraction, cash, positions, cursor, ret>>

\* performance_summary(), called on the completed simulation
PerformanceSummary ==
    /\ Completed
    /\ summary' = performance_summary(data, cash, positions, trades)
    /\ UNCHANGED <<data, data_name, risk_fraction, cash, positions, trades, cursor, ret>>

Next == SimulateRow \/ Returns \/ PerformanceSummary

Spec == Init /\ [][Next]_vars

\* ------------------------------------------------------------------------
\* Properties
\* ------------------------------------------------------------------------
Num(n) == FromInt(n)

Closes == [k \in 1..Len(data) |-> data[k].Close]
SignalsOf == [k \in 1..Len(data) |-> data[k].signal]
Labels == [k \in 1..Len(data) |-> data[k].name]

\* the position of the instrument, as the sell branch reads it (line 39)
Position == Get(positions, data_name)

\* the quantity bought and not sold again, by the trade log
NetTraded == Sum([k \in 1..Len(trades) |-> trades[k].quantity])

LastTrade(tr) == tr[Len(tr)]

\* the step processes a row
RowStep == cursor' = cursor + 1

\* the row being processed calls _execute: a buy, or a sell that finds a position
CallsExecute ==
    /\ cursor < Len(data)
    /\ \/ data[cursor + 1].signal = 1
       \/ data[cursor + 1].signal = -1 /\ FIsPos(Position)

\* the quantity simulate passes to _execute on that row
PassedQty ==
    IF data[cursor + 1].signal = 1
    THEN FDiv(FMul(cash, risk_fraction), data[cursor + 1].Close)
    ELSE FNeg(Position)

\* C1: every call of _execute(ticker, qty, price) sets cash to cash_before - qty*price,
\* sets the position under ticker to position_before + qty (an absent position counting
\* as 0, the other positions untouched), and appends exactly one trade record carrying
\* that qty and price.
ExecuteConserves ==
    [][(RowStep /\ CallsExecute) =>
        LET row == data[cursor + 1]
            qty == PassedQty
        IN  /\ trades' = Append(trades, [ticker |-> row.name, quantity |-> qty,
                                         price |-> row.Close])
            /\ cash' = FSub(cash, FMul(qty, row.Close))
            /\ Get(positions', row.name) = FAdd(Get(positions, row.name), qty)
            /\ \A j \in 1..Len(positions) :
                   positions[j][1] # row.name => Get(positions', positions[j][1]) = positions[j][2]
            /\ \A j \in 1..Len(positions') :
                   positions'[j][1] = row.name \/ HasKey(positions, positions'[j][1])]_vars

\* two buys have accumulated under one key, and cash is what both left
ExecuteConservesWitness ==
    /\ Len(trades) = 2
    /\ Len(positions) = 1
    /\ FIsPos(trades[1].quantity) /\ FIsPos(trades[2].quantity)
    /\ positions[1][2] = FAdd(trades[1].quantity, trades[2].quantity)
    /\ positions[1][2] # trades[2].quantity
    /\ cash = FSub(FSub(Num(1000), FMul(trades[1].quantity, trades[1].price)),
                   FMul(trades[2].quantity, trades[2].price))

\* C2: whenever a row with signal -1 is processed while the quantity held from
\* earlier buys is greater than 0, the full held quantity is sold at the row's close:
\* the held position becomes 0, cash increases by held * close, and a trade with
\* quantity -held is appended to the trade log.
SellClosesHolding ==
    [][(RowStep /\ data[cursor + 1].signal = -1 /\ FIsPos(NetTraded)) =>
        LET held  == NetTraded
            close == data[cursor + 1].Close
        IN  /\ Len(trades') = Len(trades) + 1
            /\ LastTrade(trades').quantity = FNeg(held)
            /\ LastTrade(trades').price = close
            /\ cash' = FAdd(cash, FMul(held, close))
            /\ IsZero(Get(positions', data_name))]_vars

\* C3: processing a row with signal -1 while the held quantity (positions.get of
\* data.name, 0 when absent) is <= 0 leaves cash, positions and the trade log unchanged.
NoOpSell ==
    [][(RowStep /\ data[cursor + 1].signal = -1 /\ ~FIsPos(Position)) =>
        UNCHANGED <<cash, positions, trades>>]_vars

\* a sell row has just been processed as a no-op on a ledger that holds a buy
NoOpSellWitness ==
    /\ cursor = 2
    /\ data[1].signal = 1 /\ data[2].signal = -1
    /\ ~FIsPos(Position)
    /\ Len(trades) = 1
    /\ Len(positions) = 1

\* Scenario A of the specification, on a frame indexed by one timestamp per row and
\* named by its ticker (initial_cash is 1000 in every run)
ScenarioA ==
    /\ Closes = <<Num(100), Num(110), Num(121)>>
    /\ SignalsOf = <<1, 0, -1>>
    /\ Labels = <<1, 2, 3>>
    /\ data_name = NoLabel
    /\ risk_fraction = FromRatio(1, 2)

\* C4: Scenario A gives cash = 500 and position = 5 after the first row, and after
\* the third row cash = 1105, position = 0, a portfolio value of 1105 at price 121,
\* and a trade log of exactly two trades: buy 5 at 100, sell 5 at 121.
ScenarioAOutcome ==
    ScenarioA =>
        /\ cursor = 1 => cash = Num(500) /\ Position = Num(5)
        /\ cursor = 3 =>
            /\ cash = Num(1105)
            /\ Position = Zero
            /\ portfolio_value(cash, positions, Num(121)) = Num(1105)
            /\ Len(trades) = 2
            /\ trades[1].quantity = Num(5) /\ trades[1].price = Num(100)
            /\ trades[2].quantity = Num(-5) /\ trades[2].price = Num(121)

\* C5: with fewer than 2 trades in the log, performance_summary completes without
\* raising and returns PnL = 0, Avg Trade Return = 0 and Win Rate = 0.
FewTradesSummaryIsZero ==
    (summary.status # "none" /\ Len(trades) < 2) =>
        /\ summary.status = "ok"
        /\ summary.value.PnL = Zero
        /\ summary.value.AvgTradeReturn = Zero
        /\ summary.value.WinRate = Zero

\* C6: on a series of length 1, returns() and performance_summary() end in an
\* explicit InsufficientData failure instead of an empty return series or metrics.
ShortSeriesFails ==
    Len(data) = 1 =>
        /\ ret.status # "none" => ret.status = "InsufficientData"
        /\ summary.status # "none" => summary.status = "InsufficientData"

\* C7: when two consecutive rows carry signal +1, both buys execute (the second sized
\* from the cash left after the first, each logged) and the position of the
\* instrument after the second buy is the position after the first plus the second
\* buy's quantity.
ConsecutiveBuysAccumulate ==
    [][(RowStep /\ cursor >= 1 /\ data[cursor].signal = 1 /\ data[cursor + 1].signal = 1) =>
        LET qty == FDiv(FMul(cash, risk_fraction), data[cursor + 1].Close)
        IN  /\ trades # <<>>
            /\ LastTrade(trades).price = data[cursor].Close
            /\ trades' = Append(trades, [ticker |-> data[cursor + 1].name, quantity |-> qty,
                                         price |-> data[cursor + 1].Close])
            /\ Position' = FAdd(Position, qty)]_vars

\* the rows 1..cursor that gave the trades of the log, in order: an increasing map
\* from the log into the processed rows that matches label and price
FollowsSeries(f) ==
    /\ \A a, b \in DOMAIN f : a < b => f[a] < f[b]
    /\ \A k \in DOMAIN f :
           trades[k].ticker = data[f[k]].name /\ trades[k].price = data[f[k]].Close

\* C8: the trade log only ever grows at its end, by the trade of the row being
\* processed, and its entries follow the series order: each row contributes at most
\* one trade and the trade of an earlier row precedes that of a later one.
TradeLogOrdered ==
    /\ [](\E f \in [1..Len(trades) -> 1..cursor] : FollowsSeries(f))
    /\ [][\/ trades' = trades
          \/ /\ RowStep
             /\ Len(trades') = Len(trades) + 1
             /\ SubSeq(trades', 1, Len(trades)) = trades
             /\ LastTrade(trades').ticker = data[cursor + 1].name]_vars

\* three rows processed, two of them traded, the log in row order
TradeLogOrderedWitness ==
    /\ cursor = 3
    /\ Len(trades) = 2
    /\ Labels = <<1, 2, 3>>
    /\ trades[1].ticker < trades[2].ticker

\* C9: returns() and performance_summary() leave cash, positions, the trade log and
\* the input series unchanged, so a later call of performance_summary on the same
\* completed simulation returns what the earlier one returned.
AnalysisIsReadOnly ==
    /\ [][(ret' # ret \/ summary' # summary) =>
            UNCHANGED <<data, data_name, risk_fraction, cash, positions, trades, cursor>>]_vars
    /\ [][summary.status # "none" => summary' = summary]_vars

\* both analyses have run on a ledger with positions and a summary of real trades
AnalysisIsReadOnlyWitness ==
    /\ summary.status = "ok"
    /\ ret.status = "ok"
    /\ Len(ret.value) = 2
    /\ Len(trades) >= 2
    /\ FIsPos(summary.value.WinRate)

\* C10 as stated: with initial_cash > 0, risk_fraction in (0, 1] and every close > 0
\* (all frames and parameters here), cash is >= 0 in every state of simulate.
CashNeverNegative == ~FIsNeg(cash)

\* C10, amended: cash is >= 0 in every state of simulate when risk_fraction is
\* strictly below 1.
CashNeverNegativeBelowOne == risk_fraction # Num(1) => ~FIsNeg(cash)

\* three buys in a row at a fraction below 1, cash still positive
CashNeverNegativeWitness ==
    /\ risk_fraction = FromRatio(2, 100)
    /\ cursor = 3
    /\ SignalsOf = <<1, 1, 1>>
    /\ Len(trades) = 3
    /\ FIsPos(cash)
    /\ FGt(Num(1000), cash)

====
